---- MODULE Spec2Model ----
(***************************************************************************)
(* Model of scripts/do_create_dem.py (class SceneDEM): the LPGS MTL        *)
(* metadata parser parseMeta, the parameter-file writer writeParams, the   *)
(* GDAL header patcher fixGdalHdr and the driver createDEM, which runs the *)
(* four external DEM tools in sequence.                                    *)
(*                                                                         *)
(* Floating point fields are kept in fixed point with two units per 1.0    *)
(* (Float(n) below), so that 0.5 * pixsize is exact.                       *)
(***************************************************************************)
EXTENDS Integers, Sequences, FiniteSets, TLC

VARIABLES
    pc,          \* position of the control thread inside createDEM
    cwd,         \* the process working directory (os.getcwd / os.chdir)
    mydir,       \* createDEM's local mydir, the directory recorded at entry
    entered,     \* TRUE once createDEM has called os.chdir(metadir)
    seen,        \* what the path checks observed: isfile, writable
    usebin,      \* createDEM's usebin argument
    metafile,    \* the lines of the metadata file parseMeta has read
    rec,         \* the fields of the SceneDEM instance
    parse_ret,   \* <<>> until parseMeta returns, then <<its return value>>
    params,      \* the parameter files of the metadata directory, by name
    invoked,     \* the external tools started so far, with what came of each
    hdr,         \* the lines of lsrd_scene_based_dem.hdr
    patched,     \* TRUE once fixGdalHdr has been entered
    logged,      \* the messages passed to log(), in order
    returned,    \* <<>> until createDEM returns, then <<its return value>>
    exc,         \* the exception that left createDEM, "" when none did
    temp,        \* the file temp.hdr of fixGdalHdr
    orig,        \* the lines of the header when fixGdalHdr opened it
    nread,       \* how many header lines the loop of fixGdalHdr has read
    runs,        \* the fixGdalHdr calls under way at once in one directory
    log_handler, \* espa_logging.__LOG_HANDLER__: <<>> for None, else <<path>>
    debug_on,    \* espa_logging.__DEBUG_ON__
    stdout,      \* the lines printed to standard output
    logfiles,    \* the lines of each log file, by path
    calls,       \* the calls made to espa_logging, with what each did
    exit_status, \* <<>> while the script runs, then <<its exit status>>
    first        \* <<>>, or <<what an earlier parseMeta call on the instance did>>

hdrvars == <<temp, orig, nread, runs>>
logvars == <<log_handler, debug_on, stdout, logfiles, calls>>
mainvars == <<exit_status>>
parsevars == <<first>>

vars == <<pc, cwd, mydir, entered, seen, usebin, metafile, rec, parse_ret,
          params, invoked, hdr, patched, logged, returned, exc, hdrvars,
          logvars, mainvars, parsevars>>

----------------------------------------------------------------------------
(* espa_constants.py *)

SUCCESS == 0
ERROR == -1

----------------------------------------------------------------------------
(* Bounds of the model *)

\* the most lines left out of a well-formed metadata file
MaxDropped == 1

----------------------------------------------------------------------------
(* Metadata text: lines and value texts *)

\* the float a decimal text denotes, in fixed point (two units per 1.0)
Float(n) == n + n

\* 0.5 * x on a fixed-point value
HalfOf(x) == x \div 2

\* Value texts after value.strip(): an integer literal ("46"), a decimal
\* literal ("46.0"), a quoted string ("\"UTM\""), a bare word (UTM).
IntText(n) == [form |-> "int", n |-> n, s |-> ""]
DecText(n) == [form |-> "dec", n |-> n, s |-> ""]
Quoted(s) == [form |-> "quoted", n |-> 0, s |-> s]
Bare(s) == [form |-> "bare", n |-> 0, s |-> s]

\* A line after rstrip/strip: the text END, a text holding an "=" (split in
\* param and value), or a text holding none (a blank line, a stray word).
EndLine == [kind |-> "end", param |-> "", value |-> Bare("")]
NoEqLine == [kind |-> "noeq", param |-> "", value |-> Bare("")]
KV(p, v) == [kind |-> "kv", param |-> p, value |-> v]

\* float(value): integer and decimal literals convert, anything else raises
\* ValueError
ToFloat(v) ==
    IF v.form \in {"int", "dec"}
    THEN [ok |-> TRUE, val |-> Float(v.n)]
    ELSE [ok |-> FALSE, val |-> 0]

\* int(value): only an integer literal converts; int("46.0") raises ValueError
ToInt(v) ==
    IF v.form = "int"
    THEN [ok |-> TRUE, val |-> v.n]
    ELSE [ok |-> FALSE, val |-> 0]

\* value.strip('"'): the text without its surrounding quotes
StripQuotes(v) ==
    IF v.form \in {"quoted", "bare"} THEN v.s ELSE "<number>"

----------------------------------------------------------------------------
(* class SceneDEM: the class attributes a fresh instance reads *)

SceneDEM ==
    [ west_bound_lon |-> Float(9999),
      east_bound_lon |-> Float(-9999),
      north_bound_lat |-> Float(-9999),
      south_bound_lat |-> Float(9999),
      ul_proj_x |-> Float(-13),
      ul_proj_y |-> Float(-13),
      pixsize |-> Float(-13),
      path |-> 0,
      row |-> 0,
      map_proj |-> "None",
      utm_zone |-> 99,
      vert_lon_from_pole |-> Float(-9999),
      true_scale_lat |-> Float(-9999),
      false_east |-> Float(-9999),
      false_north |-> Float(-9999) ]

FloatKeys ==
    { "CORNER_UL_LAT_PRODUCT", "CORNER_UL_LON_PRODUCT",
      "CORNER_UR_LAT_PRODUCT", "CORNER_UR_LON_PRODUCT",
      "CORNER_LL_LAT_PRODUCT", "CORNER_LL_LON_PRODUCT",
      "CORNER_LR_LAT_PRODUCT", "CORNER_LR_LON_PRODUCT",
      "CORNER_UL_PROJECTION_X_PRODUCT", "CORNER_UL_PROJECTION_Y_PRODUCT",
      "GRID_CELL_SIZE_REFLECTIVE", "VERTICAL_LON_FROM_POLE",
      "TRUE_SCALE_LAT", "FALSE_EASTING", "FALSE_NORTHING" }

IntKeys == { "WRS_PATH", "WRS_ROW", "UTM_ZONE" }

\* KeepMax as a plain assignment: the later line wins
KeepMaxOverwrites(cur, v) == v

\* if (float(value) > self.X): self.X = float(value)
KeepMax(cur, v) == IF v > cur THEN v ELSE cur

\* if (float(value) < self.X): self.X = float(value)
KeepMin(cur, v) == IF v < cur THEN v ELSE cur

\* the if/elif chain of parseMeta on a line whose float value is f
SetFloat(r, p, f) ==
    CASE p = "CORNER_UL_LAT_PRODUCT" ->
            [r EXCEPT !.north_bound_lat = KeepMax(@, f)]
      [] p = "CORNER_UL_LON_PRODUCT" ->
            [r EXCEPT !.west_bound_lon = KeepMin(@, f)]
      [] p = "CORNER_UR_LAT_PRODUCT" ->
            [r EXCEPT !.north_bound_lat = KeepMax(@, f)]
      [] p = "CORNER_UR_LON_PRODUCT" ->
            [r EXCEPT !.east_bound_lon = KeepMax(@, f)]
      [] p = "CORNER_LL_LAT_PRODUCT" ->
            [r EXCEPT !.south_bound_lat = KeepMin(@, f)]
      [] p = "CORNER_LL_LON_PRODUCT" ->
            [r EXCEPT !.west_bound_lon = KeepMin(@, f)]
      [] p = "CORNER_LR_LAT_PRODUCT" ->
            [r EXCEPT !.south_bound_lat = KeepMin(@, f)]
      [] p = "CORNER_LR_LON_PRODUCT" ->
            [r EXCEPT !.east_bound_lon = KeepMax(@, f)]
      [] p = "CORNER_UL_PROJECTION_X_PRODUCT" -> [r EXCEPT !.ul_proj_x = f]
      [] p = "CORNER_UL_PROJECTION_Y_PRODUCT" -> [r EXCEPT !.ul_proj_y = f]
      [] p = "GRID_CELL_SIZE_REFLECTIVE" -> [r EXCEPT !.pixsize = f]
      [] p = "VERTICAL_LON_FROM_POLE" -> [r EXCEPT !.vert_lon_from_pole = f]
      [] p = "TRUE_SCALE_LAT" -> [r EXCEPT !.true_scale_lat = f]
      [] p = "FALSE_EASTING" -> [r EXCEPT !.false_east = f]
      [] p = "FALSE_NORTHING" -> [r EXCEPT !.false_north = f]

\* the if/elif chain of parseMeta on a line whose int value is n
SetInt(r, p, n) ==
    CASE p = "WRS_PATH" -> [r EXCEPT !.path = n]
      [] p = "WRS_ROW" -> [r EXCEPT !.row = n]
      [] p = "UTM_ZONE" -> [r EXCEPT !.utm_zone = n]

UnknownKeyRaises(r, l) == [rec |-> r, raised |-> TRUE]
\* a "param = value" line whose param matches none of the elif tests
UnknownKey(r, l) == [rec |-> r, raised |-> FALSE]

\* One pass of the for loop body on a line that is not END: the record
\* afterwards, and whether the body raised (ValueError from the tuple
\* unpacking of split, from float() or from int()).
ApplyLine(r, l) ==
    IF l.kind = "noeq" THEN [rec |-> r, raised |-> TRUE]
    ELSE IF l.param \in FloatKeys THEN
        LET f == ToFloat(l.value) IN
        IF f.ok THEN [rec |-> SetFloat(r, l.param, f.val), raised |-> FALSE]
        ELSE [rec |-> r, raised |-> TRUE]
    ELSE IF l.param \in IntKeys THEN
        LET n == ToInt(l.value) IN
        IF n.ok THEN [rec |-> SetInt(r, l.param, n.val), raised |-> FALSE]
        ELSE [rec |-> r, raised |-> TRUE]
    ELSE IF l.param = "MAP_PROJECTION" THEN
        [rec |-> [r EXCEPT !.map_proj = StripQuotes(l.value)],
         raised |-> FALSE]
    ELSE UnknownKey(r, l)

\* ScanLines reading on past END
RECURSIVE ScanLinesPastEnd(_, _, _)
ScanLinesPastEnd(r, file, i) ==
    IF i > Len(file) THEN [rec |-> r, raised |-> FALSE]
    ELSE IF file[i].kind = "end" THEN ScanLinesPastEnd(r, file, i + 1)
    ELSE LET a == ApplyLine(r, file[i]) IN
         IF a.raised THEN a ELSE ScanLinesPastEnd(a.rec, file, i + 1)

\* the for loop of parseMeta from line i on: it ends at END, at the end of
\* the file, or at the line that raises
RECURSIVE ScanLines(_, _, _)
ScanLines(r, file, i) ==
    IF i > Len(file) \/ file[i].kind = "end"
    THEN [rec |-> r, raised |-> FALSE]
    ELSE LET a == ApplyLine(r, file[i]) IN
         IF a.raised THEN a ELSE ScanLines(a.rec, file, i + 1)

\* the conditions of the "validate input" checks of parseMeta, in order
BoundsUnset(r) ==
    \/ r.north_bound_lat = Float(-9999) \/ r.south_bound_lat = Float(9999)
    \/ r.east_bound_lon = Float(-9999) \/ r.west_bound_lon = Float(9999)

ULProjUnset(r) == r.ul_proj_x = Float(-13) \/ r.ul_proj_y = Float(-13)

PixsizeUnset(r) == r.pixsize = Float(-13)

\* PathRowUnset with the row test forgotten
PathRowUnsetPathOnly(r) == r.path = 0

PathRowUnset(r) == r.path = 0 \/ r.row = 0

ProjUnsupported(r) == r.map_proj # "UTM" /\ r.map_proj # "PS"

ZoneUnset(r) == r.map_proj = "UTM" /\ r.utm_zone = 0

PSUnset(r) ==
    /\ r.map_proj = "PS"
    /\ \/ r.vert_lon_from_pole = Float(-9999)
       \/ r.true_scale_lat = Float(-9999)
       \/ r.false_east = Float(-9999)
       \/ r.false_north = Float(-9999)

\* the "validate input" part of parseMeta: the message of the first check
\* that fails, "" when all pass
ValidationError(r) ==
    IF BoundsUnset(r)
    THEN "Error: obtaining north/south and/or east/west bounding metadata fields"
    ELSE IF ULProjUnset(r) THEN "Error: obtaining UL project x/y fields"
    ELSE IF PixsizeUnset(r)
    THEN "Error: obtaining reflective grid cell size field"
    ELSE IF PathRowUnset(r) THEN "Error: obtaining path/row metadata fields"
    ELSE IF ProjUnsupported(r)
    THEN "Error: obtaining map projection metadata field"
    ELSE IF ZoneUnset(r) THEN "Error: obtaining UTM zone metadata field"
    ELSE IF PSUnset(r)
    THEN "Error: obtaining Polar Stereographic metadata fields"
    ELSE ""

\* ShiftToCorner with y moved the same way as x
ShiftSameSign(r) ==
    [r EXCEPT !.ul_proj_x = @ - HalfOf(r.pixsize),
              !.ul_proj_y = @ - HalfOf(r.pixsize)]

\* "convert the UL corner to represent the UL corner of the pixel instead of
\* the center of the pixel"
ShiftToCorner(r) ==
    [r EXCEPT !.ul_proj_x = @ - HalfOf(r.pixsize),
              !.ul_proj_y = @ + HalfOf(r.pixsize)]

\* parseMeta on an instance whose fields are r: the fields afterwards, how
\* the call ended ("return" with ret, or "raise"), and the message it logged
parseMeta(r, file) ==
    LET s == ScanLines(r, file, 1)
        err == ValidationError(s.rec)
    IN  IF s.raised
        THEN [rec |-> s.rec, ended |-> "raise", ret |-> ERROR, msg |-> ""]
        ELSE IF err # ""
        THEN [rec |-> s.rec, ended |-> "return", ret |-> ERROR, msg |-> err]
        ELSE [rec |-> ShiftToCorner(s.rec), ended |-> "return",
              ret |-> SUCCESS, msg |-> ""]

----------------------------------------------------------------------------
(* The metadata files parseMeta is given *)

\* corner lines of a scene (degrees); the UL and LR corners alone, the UR and
\* LL corners alone, and all four in the order of an MTL file
CornersULLR ==
    << KV("CORNER_UL_LAT_PRODUCT", DecText(46)),
       KV("CORNER_UL_LON_PRODUCT", DecText(10)),
       KV("CORNER_LR_LAT_PRODUCT", DecText(43)),
       KV("CORNER_LR_LON_PRODUCT", DecText(12)) >>

CornersURLL ==
    << KV("CORNER_UR_LAT_PRODUCT", DecText(45)),
       KV("CORNER_UR_LON_PRODUCT", DecText(13)),
       KV("CORNER_LL_LAT_PRODUCT", DecText(44)),
       KV("CORNER_LL_LON_PRODUCT", DecText(9)) >>

CornersAll ==
    << KV("CORNER_UL_LAT_PRODUCT", DecText(46)),
       KV("CORNER_UL_LON_PRODUCT", DecText(10)),
       KV("CORNER_UR_LAT_PRODUCT", DecText(45)),
       KV("CORNER_UR_LON_PRODUCT", DecText(13)),
       KV("CORNER_LL_LAT_PRODUCT", DecText(44)),
       KV("CORNER_LL_LON_PRODUCT", DecText(9)),
       KV("CORNER_LR_LAT_PRODUCT", DecText(43)),
       KV("CORNER_LR_LON_PRODUCT", DecText(12)) >>

ProductLines ==
    << KV("CORNER_UL_PROJECTION_X_PRODUCT", DecText(500)),
       KV("CORNER_UL_PROJECTION_Y_PRODUCT", DecText(700)),
       KV("GRID_CELL_SIZE_REFLECTIVE", DecText(30)),
       KV("WRS_PATH", IntText(46)),
       KV("WRS_ROW", IntText(28)) >>

UTMLines ==
    << KV("MAP_PROJECTION", Quoted("UTM")),
       KV("UTM_ZONE", IntText(10)) >>

PSLines ==
    << KV("MAP_PROJECTION", Quoted("PS")),
       KV("VERTICAL_LON_FROM_POLE", DecText(0)),
       KV("TRUE_SCALE_LAT", DecText(-71)),
       KV("FALSE_EASTING", DecText(0)),
       KV("FALSE_NORTHING", DecText(0)) >>

\* the well-formed files: corners, product fields, projection, END
WellFormed ==
    { c \o ProductLines \o p \o <<EndLine>> :
        c \in {CornersULLR, CornersURLL, CornersAll},
        p \in {UTMLines, PSLines} }

\* a line put into a well-formed file: a corner repeated with a value below
\* or above every value of the file, a field given again, an unknown key, a
\* value that is no number, a line without "=", an early END
ExtraLines ==
    { KV(k, DecText(v)) :
        k \in { "CORNER_UL_LAT_PRODUCT", "CORNER_UL_LON_PRODUCT",
                "CORNER_UR_LAT_PRODUCT", "CORNER_UR_LON_PRODUCT",
                "CORNER_LL_LAT_PRODUCT", "CORNER_LL_LON_PRODUCT",
                "CORNER_LR_LAT_PRODUCT", "CORNER_LR_LON_PRODUCT" },
        v \in {-80, 80} }
    \cup
    { KV("CORNER_UL_PROJECTION_X_PRODUCT", DecText(-13)),
      KV("CORNER_UL_PROJECTION_Y_PRODUCT", IntText(900)),
      KV("GRID_CELL_SIZE_REFLECTIVE", DecText(60)),
      KV("GRID_CELL_SIZE_REFLECTIVE", Bare("thirty")),
      KV("WRS_PATH", IntText(0)),
      KV("WRS_PATH", DecText(46)),
      KV("WRS_ROW", Quoted("28")),
      KV("MAP_PROJECTION", Quoted("GEO")),
      KV("MAP_PROJECTION", Bare("PS")),
      KV("MAP_PROJECTION", Quoted("UTM")),
      KV("UTM_ZONE", IntText(0)),
      KV("UTM_ZONE", IntText(-10)),
      KV("SPACECRAFT_ID", Quoted("LANDSAT_8")),
      KV("SUN_ELEVATION", DecText(45)),
      KV("utm_zone", IntText(0)),
      KV("GROUP", Bare("L1_METADATA_FILE")),
      NoEqLine,
      EndLine }

\* the subsets of S of at most k elements
RECURSIVE SubsetsUpTo(_, _)
SubsetsUpTo(S, k) ==
    IF k = 0 THEN {{}}
    ELSE LET P == SubsetsUpTo(S, k - 1) IN
         P \cup { q \cup {x} : q \in P, x \in S }

\* file without the lines whose positions are in D
RECURSIVE Without(_, _, _)
Without(file, D, i) ==
    IF i > Len(file) THEN <<>>
    ELSE (IF i \in D THEN <<>> ELSE <<file[i]>>) \o Without(file, D, i + 1)

\* the position of the first END line of file, Len(file) + 1 when it has none
RECURSIVE FirstEnd(_, _)
FirstEnd(file, i) ==
    IF i > Len(file) \/ file[i].kind = "end" THEN i
    ELSE FirstEnd(file, i + 1)

\* file with line e put in front of position i
InsertAt(file, i, e) ==
    SubSeq(file, 1, i - 1) \o <<e>> \o SubSeq(file, i, Len(file))

\* An edit of a file: a line put at its top, right above its END or at its
\* bottom; or none.
NoEdit == [at |-> "nowhere", line |-> EndLine]
Edits(lines) ==
    { [at |-> w, line |-> e] :
        w \in {"top", "above END", "bottom"}, e \in lines }
    \cup {NoEdit}

Edited(file, ed) ==
    CASE ed.at = "nowhere" -> file
      [] ed.at = "top" -> InsertAt(file, 1, ed.line)
      [] ed.at = "above END" -> InsertAt(file, FirstEnd(file, 1), ed.line)
      [] ed.at = "bottom" -> InsertAt(file, Len(file) + 1, ed.line)

\* the line positions that may be left out of file f
Drops(f) == SubsetsUpTo(1..Len(f), MaxDropped)

\* The metadata files parseMeta is called on: a well-formed file thinned by
\* at most MaxDropped lines, then edited.
MetaFile(f, D, ed) == Edited(Without(f, D, 1), ed)

\* the lines createDEM's files are edited with: a product field given again,
\* a value that is no number, a line without "="
DriverExtras ==
    { KV("CORNER_UL_PROJECTION_X_PRODUCT", DecText(-13)),
      KV("CORNER_UL_PROJECTION_Y_PRODUCT", IntText(900)),
      KV("GRID_CELL_SIZE_REFLECTIVE", DecText(60)),
      KV("GRID_CELL_SIZE_REFLECTIVE", Bare("thirty")),
      KV("WRS_PATH", DecText(46)),
      KV("UTM_ZONE", IntText(-10)),
      NoEqLine }

----------------------------------------------------------------------------
(* writeParams *)

\* the parameter files, in the order writeParams opens them
ParamFiles ==
    << "LSRD.omf", "retrieve_elevation.odl", "makegeomgrid.odl",
       "geomresample.odl" >>

Absent == [state |-> "absent", lines |-> <<>>]
Empty == [state |-> "empty", lines |-> <<>>]
Complete(ls) == [state |-> "complete", lines |-> ls]

OmfLine(k, a, b) == [key |-> k, a |-> a, b |-> b]

\* ProjectionLines with the two projection codes exchanged
ProjectionLinesSwapped(r) ==
    IF r.map_proj = "UTM"
    THEN << OmfLine("TARGET_PROJECTION", 6, 0),
            OmfLine("UTM_ZONE", r.utm_zone, 0) >>
    ELSE IF r.map_proj = "PS"
    THEN << OmfLine("TARGET_PROJECTION", 1, 0) >>
    ELSE <<>>

\* lines 353-359: the projection lines of the OMF file
ProjectionLines(r) ==
    IF r.map_proj = "UTM"
    THEN << OmfLine("TARGET_PROJECTION", 1, 0),
            OmfLine("UTM_ZONE", r.utm_zone, 0) >>
    ELSE IF r.map_proj = "PS"
    THEN << OmfLine("TARGET_PROJECTION", 6, 0) >>
    ELSE <<>>

\* omf_list of writeParams
OmfLines(r) ==
    << OmfLine("OBJECT", 0, 0),
       OmfLine("SATELLITE", 8, 0),
       OmfLine("UL_BOUNDARY_LAT_LON", r.north_bound_lat, r.west_bound_lon),
       OmfLine("UR_BOUNDARY_LAT_LON", r.north_bound_lat, r.east_bound_lon),
       OmfLine("LL_BOUNDARY_LAT_LON", r.south_bound_lat, r.west_bound_lon),
       OmfLine("LR_BOUNDARY_LAT_LON", r.south_bound_lat, r.east_bound_lon),
       OmfLine("TARGET_WRS_PATH", r.path, 0),
       OmfLine("TARGET_WRS_ROW", r.row, 0) >>
    \o ProjectionLines(r)
    \o << OmfLine("GRID_FILENAME_PASS_1", 0, 0),
          OmfLine("END_OBJECT", 0, 0),
          OmfLine("END", 0, 0) >>

\* the fixed ODL texts, each naming one product file
OdlLines(i) ==
    CASE i = 2 -> << OmfLine("DEM_FILENAME lsrd_source_dem.h5", 0, 0) >>
      [] i = 3 -> << OmfLine("GEOM_GRID_FILENAME lsrd_geomgrid.h5", 0, 0) >>
      [] i = 4 ->
         << OmfLine("OUTPUT_IMAGE_FILENAME lsrd_scene_based_dem.h5", 0, 0) >>

ParamText(r, i) == IF i = 1 THEN OmfLines(r) ELSE OdlLines(i)

\* The parameter files after a writeParams call that completed k of them.
\* When k is short of all four, file k + 1 is the one whose open() or write
\* raised: it is left as it was (open failed) or truncated (write failed).
ParamsAfter(old, r, k, failed) ==
    [ n \in DOMAIN old |->
        LET i == CHOOSE j \in 1..Len(ParamFiles) : ParamFiles[j] = n IN
        IF i <= k THEN Complete(ParamText(r, i))
        ELSE IF i = k + 1 /\ failed = "write" THEN Empty
        ELSE old[n] ]

----------------------------------------------------------------------------
(* fixGdalHdr *)

\* A line of a header file: the white space before its text, the text cut
\* into pieces, its end of line ("" when the file ends without one), and
\* what a map info or projection info line says.
Line(lead, text, eol) ==
    [ lead |-> lead, text |-> text, eol |-> eol, proj |-> "", x |-> 0,
      y |-> 0, pix |-> 0, zone |-> 0, hemi |-> "" ]

\* a line of the header gdal_translate wrote; the tool knows none of the
\* record's fields
GdalLine(t) == Line("", <<t>>, "LF")

\* a line fixGdalHdr formats from the record
HdrLine(t, r) ==
    [ GdalLine(t) EXCEPT !.x = r.ul_proj_x, !.y = r.ul_proj_y,
                         !.pix = r.pixsize ]

\* myline = line.rstrip('\r\n').strip()
Stripped(line) == [line EXCEPT !.lead = "", !.eol = ""]

\* myline.find ('map info') >= 0
HasMarker(line) ==
    \E i \in 1..Len(Stripped(line).text) : Stripped(line).text[i] = "map info"

ENVI_PS_PROJ == 31

UTMInfoSigned(r) ==
    IF r.utm_zone > 0
    THEN [HdrLine("map info", r) EXCEPT
             !.proj = "UTM", !.zone = r.utm_zone, !.hemi = "North"]
    ELSE [HdrLine("map info", r) EXCEPT
             !.proj = "UTM", !.zone = r.utm_zone, !.hemi = "South"]
\* the map info line of a UTM scene
UTMInfo(r) ==
    IF r.utm_zone > 0
    THEN [HdrLine("map info", r) EXCEPT
             !.proj = "UTM", !.zone = r.utm_zone, !.hemi = "North"]
    ELSE [HdrLine("map info", r) EXCEPT
             !.proj = "UTM", !.zone = -r.utm_zone, !.hemi = "South"]

\* the map info and projection info lines of a polar stereographic scene
PSInfo(r) ==
    << [HdrLine("map info", r) EXCEPT !.proj = "Polar Stereographic"],
       [GdalLine("projection info") EXCEPT
           !.proj = "Polar Stereographic", !.x = r.true_scale_lat,
           !.y = r.vert_lon_from_pole, !.zone = ENVI_PS_PROJ] >>

CopiedStripped(line) == <<Stripped(line)>>
\* tempf.write (line)
Copied(line) == <<line>>

\* what fixGdalHdr writes to temp.hdr for one line of the header
FixLine(r, line) ==
    IF HasMarker(line)
    THEN IF r.map_proj = "UTM" THEN <<UTMInfo(r)>>
         ELSE IF r.map_proj = "PS" THEN PSInfo(r)
         ELSE <<>>
    ELSE Copied(line)

RECURSIVE FixLines(_, _, _)
FixLines(r, lines, i) ==
    IF i > Len(lines) THEN <<>>
    ELSE FixLine(r, lines[i]) \o FixLines(r, lines, i + 1)

\* the headers gdal_translate leaves behind
GdalHeaders ==
    { << GdalLine("ENVI"), GdalLine("samples"), GdalLine("map info"),
         GdalLine("band names") >>,
      << GdalLine("ENVI"), GdalLine("samples") >> }

----------------------------------------------------------------------------
(* createDEM *)

HomeDir == "/home/espa"
MetaDir == "/data/scene"

Tools == << "retrieve_elevation", "makegeomgrid", "geomresample",
            "gdal_translate" >>

\* the largest exit status a tool is taken to exit with
MaxExitStatus == 2

\* What comes of subprocess.check_output: with started FALSE the executable
\* could not be run (OSError); otherwise the tool ran and exited with status.
ToolResults ==
    { [started |-> TRUE, status |-> s] : s \in 0..MaxExitStatus }
    \cup { [started |-> FALSE, status |-> 0] }

Msg(t) == [text |-> t, of |-> ""]
Output(tool) == [text |-> "<captured output>", of |-> tool]
Log(ms) == logged' = logged \o ms

\* the return and raise exits of createDEM
Return(v) == /\ returned' = <<v>> /\ exc' = "" /\ pc' = "done"
Raise(e) == /\ returned' = <<>> /\ exc' = e /\ pc' = "done"
Goto(l) == /\ pc' = l /\ UNCHANGED <<returned, exc>>

\* the state of what a run does not touch
NoFile == [exists |-> FALSE, lines |-> <<>>]
LogPaths == {"a.log", "b.log"}
HdrIdle == temp = NoFile /\ orig = <<>> /\ nread = 0 /\ runs = <<>>
LogIdle ==
    /\ log_handler = <<>>
    /\ debug_on = FALSE
    /\ stdout = <<>>
    /\ logfiles = [p \in LogPaths |-> <<>>]
    /\ calls = <<>>
MainIdle == exit_status = <<>>
ParseIdle == first = <<>>

Init ==
    /\ pc = "begin"
    /\ cwd \in {HomeDir, MetaDir}
    /\ mydir = ""
    /\ entered = FALSE
    /\ seen = [isfile |-> "unchecked", writable |-> "unchecked"]
    /\ usebin \in BOOLEAN
    /\ metafile = <<>>
    /\ rec = SceneDEM
    /\ parse_ret = <<>>
    /\ params = [n \in {ParamFiles[i] : i \in DOMAIN ParamFiles} |-> Absent]
    /\ invoked = <<>>
    /\ hdr = [exists |-> FALSE, lines |-> <<>>]
    /\ patched = FALSE
    /\ logged = <<>>
    /\ returned = <<>>
    /\ exc = ""
    /\ HdrIdle /\ LogIdle /\ MainIdle /\ ParseIdle

\* lines 482-499: the first log line and the choice of bin_dir; with usebin
\* set and no BIN in the environment, None + '/' raises TypeError
ResolveExecutables ==
    /\ pc = "begin"
    /\ \E bin_set \in BOOLEAN :
        IF usebin /\ ~bin_set
        THEN /\ Log(<<Msg("Processing scene-based DEMs")>>)
             /\ Raise("TypeError")
        ELSE /\ Log(<<Msg("Processing scene-based DEMs"),
                      Msg(IF usebin THEN "BIN environment variable"
                          ELSE "DEM executables expected to be in the PATH")>>)
             /\ Goto("check_file")
    /\ UNCHANGED <<hdrvars, logvars, mainvars, parsevars>>
    /\ UNCHANGED <<cwd, mydir, entered, seen, usebin, metafile, rec,
                   parse_ret, params, invoked, hdr, patched>>

\* "if not os.path.isfile(metafile)"
MetafileMissing(isfile) == ~isfile

\* NotWritable with the test lost: the directory is entered regardless
NotWritableNever(writable) == FALSE

\* "if not os.access(metadir, os.W_OK)"
NotWritable(writable) == ~writable

\* lines 501-511
CheckMetafile ==
    /\ pc = "check_file"
    /\ \E isfile \in BOOLEAN :
        /\ seen' = [seen EXCEPT !.isfile = IF isfile THEN "yes" ELSE "no"]
        /\ IF MetafileMissing(isfile)
           THEN /\ Log(<<Msg("Error: metadata file does not exist")>>)
                /\ Return(ERROR)
           ELSE /\ Log(<<Msg("Processing metadata file")>>)
                /\ Goto("check_dir")
    /\ UNCHANGED <<hdrvars, logvars, mainvars, parsevars>>
    /\ UNCHANGED <<cwd, mydir, entered, usebin, metafile, rec, parse_ret,
                   params, invoked, hdr, patched>>

\* lines 519-528
ChangeDirectory ==
    /\ pc = "check_dir"
    /\ mydir' = cwd
    /\ \E writable \in BOOLEAN :
        /\ seen' = [seen EXCEPT !.writable = IF writable THEN "yes" ELSE "no"]
        /\ IF NotWritable(writable)
           THEN /\ Log(<<Msg("Path of metadata file is not writable")>>)
                /\ UNCHANGED <<cwd, entered>>
                /\ Return(ERROR)
           ELSE /\ Log(<<Msg("Changing directories for DEM processing")>>)
                /\ cwd' = MetaDir
                /\ entered' = TRUE
                /\ Goto("parse")
    /\ UNCHANGED <<hdrvars, logvars, mainvars, parsevars>>
    /\ UNCHANGED <<usebin, metafile, rec, parse_ret, params, invoked, hdr,
                   patched>>

\* ParseFailed with the test of the return value lost
ParseFailedNever(ret) == FALSE

\* "if return_value != SUCCESS"
ParseFailed(ret) == ret # SUCCESS

\* lines 530-536
ParseMetadata ==
    /\ pc = "parse"
    /\ \E f \in WellFormed : \E D \in Drops(f), ed \in Edits(DriverExtras) :
        LET file == MetaFile(f, D, ed)
            p == parseMeta(rec, file)
        IN
        /\ D = {} \/ ed = NoEdit
        /\ metafile' = file
        /\ rec' = p.rec
        /\ IF p.ended = "raise"
           THEN /\ parse_ret' = <<>>
                /\ UNCHANGED <<cwd, logged>>
                /\ Raise("ValueError")
           ELSE /\ parse_ret' = <<p.ret>>
                /\ IF ParseFailed(p.ret)
                   THEN /\ Log((IF p.msg = "" THEN <<>> ELSE <<Msg(p.msg)>>)
                               \o <<Msg("Error parsing the metadata. Processing will terminate.")>>)
                        /\ cwd' = mydir
                        /\ Return(ERROR)
                   ELSE /\ Log(IF p.msg = "" THEN <<>> ELSE <<Msg(p.msg)>>)
                        /\ UNCHANGED cwd
                        /\ Goto("write")
    /\ UNCHANGED <<hdrvars, logvars, mainvars, parsevars>>
    /\ UNCHANGED <<mydir, entered, seen, usebin, params, invoked, hdr,
                   patched>>

\* lines 538-539: writeParams returns nothing; an IOError of one of its
\* open() or write calls leaves createDEM
WriteParamFiles ==
    /\ pc = "write"
    /\ \E k \in 0..Len(ParamFiles), failed \in {"open", "write"} :
        /\ params' = ParamsAfter(params, rec, k, failed)
        /\ IF k < Len(ParamFiles) THEN Raise("IOError") ELSE Goto("tool1")
    /\ UNCHANGED <<hdrvars, logvars, mainvars, parsevars>>
    /\ UNCHANGED <<cwd, mydir, entered, seen, usebin, metafile, rec,
                   parse_ret, invoked, hdr, patched, logged>>

\* Caught with exit status 1 taken for a success
CaughtAboveOne(result) == result.started /\ result.status > 1

\* Caught with every exit status taken for a success
CaughtNever(result) == FALSE

\* "except subprocess.CalledProcessError": the tool ran and exited non-zero
Caught(result) == result.started /\ result.status # 0

\* One try/except block of lines 541-593 for tool i, and the log of its
\* output. gdal_translate, when it succeeds, leaves a header or none.
RunTool(i) ==
    /\ pc = "tool" \o ToString(i)
    /\ \E result \in ToolResults :
        /\ invoked' = Append(invoked, [tool |-> Tools[i], result |-> result])
        /\ IF ~result.started
           THEN /\ Log(<<Msg("Executing: " \o Tools[i])>>)
                /\ UNCHANGED <<cwd, hdr>>
                /\ Raise("OSError")
           ELSE IF Caught(result)
           THEN /\ Log(<<Msg("Executing: " \o Tools[i]),
                         Msg("Error running " \o Tools[i]
                             \o ". Processing will terminate.")>>)
                /\ cwd' = mydir
                /\ UNCHANGED hdr
                /\ Return(ERROR)
           ELSE /\ Log(<<Msg("Executing: " \o Tools[i]), Output(Tools[i])>>)
                /\ UNCHANGED cwd
                /\ IF i = Len(Tools)
                   THEN /\ Goto("patch")
                        /\ \/ hdr' = hdr
                           \/ \E h \in GdalHeaders :
                                hdr' = [exists |-> TRUE, lines |-> h]
                   ELSE /\ Goto("tool" \o ToString(i + 1))
                        /\ UNCHANGED hdr
    /\ UNCHANGED <<hdrvars, logvars, mainvars, parsevars>>
    /\ UNCHANGED <<mydir, entered, seen, usebin, metafile, rec, parse_ret,
                   params, patched>>

RunRetrieveElevation == RunTool(1)
RunMakeGeomGrid == RunTool(2)
RunGeomResample == RunTool(3)
RunGdalTranslate == RunTool(4)

\* line 599: fixGdalHdr returns nothing; the IOError of open() on a missing
\* header leaves createDEM
PatchHeader ==
    /\ pc = "patch"
    /\ patched' = TRUE
    /\ IF ~hdr.exists
       THEN /\ UNCHANGED hdr
            /\ Raise("IOError")
       ELSE /\ hdr' = [hdr EXCEPT !.lines = FixLines(rec, hdr.lines, 1)]
            /\ Goto("finish")
    /\ UNCHANGED <<hdrvars, logvars, mainvars, parsevars>>
    /\ UNCHANGED <<cwd, mydir, entered, seen, usebin, metafile, rec,
                   parse_ret, params, invoked, logged>>

\* lines 601-605
ReturnSuccess ==
    /\ pc = "finish"
    /\ cwd' = mydir
    /\ Log(<<Msg("Completion of scene based DEM generation.")>>)
    /\ Return(SUCCESS)
    /\ UNCHANGED <<hdrvars, logvars, mainvars, parsevars>>
    /\ UNCHANGED <<mydir, entered, seen, usebin, metafile, rec, parse_ret,
                   params, invoked, hdr, patched>>

Next ==
    \/ ResolveExecutables
    \/ CheckMetafile
    \/ ChangeDirectory
    \/ ParseMetadata
    \/ WriteParamFiles
    \/ RunRetrieveElevation
    \/ RunMakeGeomGrid
    \/ RunGeomResample
    \/ RunGdalTranslate
    \/ PatchHeader
    \/ ReturnSuccess

Spec == Init /\ [][Next]_vars

----------------------------------------------------------------------------
(* parseMeta called on its own, on a fresh instance *)

InitParse ==
    /\ pc = "call"
    /\ cwd = MetaDir
    /\ mydir = ""
    /\ entered = FALSE
    /\ seen = [isfile |-> "unchecked", writable |-> "unchecked"]
    /\ usebin = FALSE
    /\ \E f \in WellFormed : \E D \in Drops(f), ed \in Edits(ExtraLines) :
          metafile = MetaFile(f, D, ed)
    /\ rec = SceneDEM
    /\ parse_ret = <<>>
    /\ params = [n \in {ParamFiles[i] : i \in DOMAIN ParamFiles} |-> Absent]
    /\ invoked = <<>>
    /\ hdr = [exists |-> FALSE, lines |-> <<>>]
    /\ patched = FALSE
    /\ logged = <<>>
    /\ returned = <<>>
    /\ exc = ""
    /\ HdrIdle /\ LogIdle /\ MainIdle /\ ParseIdle

\* lines 182-312, the whole call
CallParseMeta ==
    /\ pc = "call"
    /\ LET p == parseMeta(rec, metafile) IN
        /\ rec' = p.rec
        /\ parse_ret' = IF p.ended = "raise" THEN <<>> ELSE <<p.ret>>
        /\ exc' = IF p.ended = "raise" THEN "ValueError" ELSE ""
        /\ Log(IF p.msg = "" THEN <<>> ELSE <<Msg(p.msg)>>)
    /\ pc' = "done"
    /\ UNCHANGED <<hdrvars, logvars, mainvars, parsevars>>
    /\ UNCHANGED <<cwd, mydir, entered, seen, usebin, metafile, params,
                   invoked, hdr, patched, returned>>

NextParse == CallParseMeta

SpecParse == InitParse /\ [][NextParse]_vars

----------------------------------------------------------------------------
(* parseMeta called twice on one instance *)

\* the lines the second file is edited with: another pixel size, and a
\* corner north of every corner of the well-formed files
AgainExtras ==
    { KV("GRID_CELL_SIZE_REFLECTIVE", DecText(60)),
      KV("CORNER_UL_LAT_PRODUCT", DecText(80)) }

CarriedReset(r) == SceneDEM
\* the fields parseMeta starts from: those of the instance as they are, for
\* nothing in parseMeta sets them back to their initial values
Carried(r) == r

InitAgain ==
    /\ pc = "call"
    /\ cwd = MetaDir
    /\ mydir = ""
    /\ entered = FALSE
    /\ seen = [isfile |-> "unchecked", writable |-> "unchecked"]
    /\ usebin = FALSE
    /\ metafile = <<>>
    /\ rec = SceneDEM
    /\ parse_ret = <<>>
    /\ params = [n \in {} |-> Absent]
    /\ invoked = <<>>
    /\ hdr = NoFile
    /\ patched = FALSE
    /\ logged = <<>>
    /\ returned = <<>>
    /\ exc = ""
    /\ HdrIdle /\ LogIdle /\ MainIdle /\ ParseIdle

\* what a parseMeta call on file leaves in the state
Parsed(file, next) ==
    LET p == parseMeta(Carried(rec), file) IN
    /\ metafile' = file
    /\ rec' = p.rec
    /\ parse_ret' = IF p.ended = "raise" THEN <<>> ELSE <<p.ret>>
    /\ exc' = IF p.ended = "raise" THEN "ValueError" ELSE ""
    /\ Log(IF p.msg = "" THEN <<>> ELSE <<Msg(p.msg)>>)
    /\ pc' = next
    /\ UNCHANGED <<cwd, mydir, entered, seen, usebin, params, invoked, hdr,
                   patched, returned, hdrvars, logvars, mainvars>>

\* the first call, on a well-formed file
ParseFirst ==
    /\ pc = "call"
    /\ \E f \in WellFormed :
        /\ Parsed(f, "again")
        /\ first' = << [file |-> f, rec |-> rec', ret |-> parse_ret'] >>

\* the second call, on a file that may leave a line out
ParseAgain ==
    /\ pc = "again"
    /\ \E f \in WellFormed : \E D \in Drops(f), ed \in Edits(AgainExtras) :
        Parsed(MetaFile(f, D, ed), "done")
    /\ UNCHANGED first

NextAgain == ParseFirst \/ ParseAgain

SpecAgain == InitAgain /\ [][NextAgain]_vars

----------------------------------------------------------------------------
(* fixGdalHdr called on its own, one file operation at a time *)

\* the longest header fixGdalHdr is given
MaxHdrLen == 3

\* the lines a header is made of: plain ones, one ending in CR LF, the marker
\* alone, indented, inside a longer text and in other letters, and a last
\* line without its end of line
HdrAlphabet ==
    { GdalLine("ENVI"),
      Line("", <<"samples = 3601">>, "CRLF"),
      GdalLine("map info"),
      Line("  ", <<"map info">>, "LF"),
      Line("", <<"description = {", "map info", "}">>, "LF"),
      Line(" ", <<"Map Info">>, "") }

RECURSIVE Headers(_)
Headers(n) ==
    IF n = 0 THEN {<<>>}
    ELSE Headers(n - 1)
         \cup { Append(h, l) :
                  h \in { g \in Headers(n - 1) :
                            /\ Len(g) = n - 1
                            /\ \A i \in 1..Len(g) : g[i].eol # "" },
                  l \in HdrAlphabet }

\* the records fixGdalHdr runs on: those parseMeta validated, for UTM north
\* and south and for PS, and the one of a fresh instance
HdrRecords ==
    { parseMeta(SceneDEM, Edited(f, ed)).rec :
        f \in WellFormed,
        ed \in { NoEdit,
                 [at |-> "above END", line |-> KV("UTM_ZONE", IntText(-10))] } }
    \cup {SceneDEM}

\* a temp.hdr an earlier run left in the directory
StaleTemp == [exists |-> TRUE, lines |-> <<GdalLine("ENVI")>>]

InitHdr ==
    /\ pc = "fix"
    /\ cwd = MetaDir
    /\ mydir = ""
    /\ entered = FALSE
    /\ seen = [isfile |-> "unchecked", writable |-> "unchecked"]
    /\ usebin = FALSE
    /\ metafile = <<>>
    /\ rec \in HdrRecords
    /\ parse_ret = <<>>
    /\ params = [n \in {} |-> Absent]
    /\ invoked = <<>>
    /\ \/ hdr = NoFile
       \/ \E h \in Headers(MaxHdrLen) : hdr = [exists |-> TRUE, lines |-> h]
    /\ patched = FALSE
    /\ logged = <<>>
    /\ returned = <<>>
    /\ exc = ""
    /\ temp \in {NoFile, StaleTemp}
    /\ orig = <<>>
    /\ nread = 0
    /\ runs = <<>>
    /\ LogIdle /\ MainIdle /\ ParseIdle

hdrframe == <<cwd, mydir, entered, seen, usebin, metafile, rec, parse_ret,
              params, invoked, logged, returned, runs, logvars, mainvars, parsevars>>

\* line 105: hdrf = open (gdal_hdr, 'r')
FixOpenHdr ==
    /\ pc = "fix"
    /\ IF hdr.exists
       THEN /\ orig' = hdr.lines
            /\ pc' = "fix_temp"
            /\ exc' = ""
       ELSE /\ orig' = orig
            /\ pc' = "done"
            /\ exc' = "IOError"
    /\ patched' = TRUE
    /\ UNCHANGED <<hdr, temp, nread, hdrframe>>

\* lines 109-110: tempf = open ('temp.hdr', 'w')
FixOpenTemp ==
    /\ pc = "fix_temp"
    /\ temp' = [exists |-> TRUE, lines |-> <<>>]
    /\ pc' = "fix_loop"
    /\ UNCHANGED <<hdr, orig, nread, exc, patched, hdrframe>>

\* lines 115-149: one turn of the loop
FixCopyLine ==
    /\ pc = "fix_loop"
    /\ nread < Len(hdr.lines)
    /\ nread' = nread + 1
    /\ temp' = [temp EXCEPT !.lines = @ \o FixLine(rec, hdr.lines[nread + 1])]
    /\ UNCHANGED <<pc, hdr, orig, exc, patched, hdrframe>>

\* lines 152-153: the loop ran out of lines
FixClose ==
    /\ pc = "fix_loop"
    /\ nread = Len(hdr.lines)
    /\ pc' = "fix_remove"
    /\ UNCHANGED <<hdr, temp, orig, nread, exc, patched, hdrframe>>

\* line 156: os.remove (gdal_hdr)
FixRemove ==
    /\ pc = "fix_remove"
    /\ hdr' = NoFile
    /\ pc' = "fix_rename"
    /\ UNCHANGED <<temp, orig, nread, exc, patched, hdrframe>>

\* line 159: os.rename (temp_hdr, gdal_hdr); fixGdalHdr returns nothing
FixRename ==
    /\ pc = "fix_rename"
    /\ hdr' = temp
    /\ temp' = NoFile
    /\ pc' = "done"
    /\ UNCHANGED <<orig, nread, exc, patched, hdrframe>>

FixSteps == {"fix_temp", "fix_loop", "fix_remove", "fix_rename"}

\* the process is stopped between two steps of fixGdalHdr
Interrupt ==
    /\ pc \in FixSteps
    /\ pc' = "killed"
    /\ UNCHANGED <<hdr, temp, orig, nread, exc, patched, hdrframe>>

NextHdr ==
    \/ FixOpenHdr
    \/ FixOpenTemp
    \/ FixCopyLine
    \/ FixClose
    \/ FixRemove
    \/ FixRename
    \/ Interrupt

SpecHdr == InitHdr /\ [][NextHdr]_vars

----------------------------------------------------------------------------
(* two fixGdalHdr calls, of two processes, at once in one directory *)

Runners == {1, 2}

\* What a file holds after data was written at its start: the data, and
\* behind them what the file held beyond their length.
Overlay(data, old) == data \o SubSeq(old, Len(data) + 1, Len(old))

\* A run: where it stands, its record, the header lines it reads (src), the
\* lines tempf holds unwritten (buf), the name the file behind tempf goes by
\* ("" while tempf is not open, "gone" when no name is left), what its
\* rename put under the header's name, and the exception that ended it.
NewRun(r) ==
    [ pc |-> "fix", rec |-> r, src |-> <<>>, buf |-> <<>>, at |-> "",
      put |-> <<>>, exc |-> "" ]

InitTwo ==
    /\ pc = "two"
    /\ cwd = MetaDir
    /\ mydir = ""
    /\ entered = FALSE
    /\ seen = [isfile |-> "unchecked", writable |-> "unchecked"]
    /\ usebin = FALSE
    /\ metafile = <<>>
    /\ rec = SceneDEM
    /\ parse_ret = <<>>
    /\ params = [n \in {} |-> Absent]
    /\ invoked = <<>>
    /\ \E h \in GdalHeaders : hdr = [exists |-> TRUE, lines |-> h]
    /\ patched = FALSE
    /\ logged = <<>>
    /\ returned = <<>>
    /\ exc = ""
    /\ temp = NoFile
    /\ orig = <<>>
    /\ nread = 0
    /\ \E r1 \in HdrRecords, r2 \in HdrRecords :
        runs = [p \in Runners |-> NewRun(IF p = 1 THEN r1 ELSE r2)]
    /\ LogIdle /\ MainIdle /\ ParseIdle

twoframe == <<pc, cwd, mydir, entered, seen, usebin, metafile, rec,
              parse_ret, params, invoked, patched, logged, returned, exc,
              orig, nread, logvars, mainvars, parsevars>>

\* the runs after a name was taken from a file (from) and, for a rename,
\* given to another (to); run p moves on as next says
Renamed(p, next, gone, from, to) ==
    [ q \in Runners |->
        LET moved == [ runs[q] EXCEPT
                         !.at = IF @ = gone THEN "gone"
                                ELSE IF @ = from THEN to ELSE @ ]
        IN IF q = p THEN [moved EXCEPT !.pc = next.pc, !.put = next.put,
                                       !.exc = next.exc]
           ELSE moved ]

\* line 105: hdrf = open (gdal_hdr, 'r')
TwoOpenHdr(p) ==
    /\ runs[p].pc = "fix"
    /\ runs' = [runs EXCEPT ![p] =
                  IF hdr.exists
                  THEN [@ EXCEPT !.pc = "fix_temp", !.src = hdr.lines]
                  ELSE [@ EXCEPT !.pc = "raised", !.exc = "IOError"]]
    /\ UNCHANGED <<hdr, temp, twoframe>>

\* lines 109-110: open ('temp.hdr', 'w') makes the file, or empties the one
\* that is there, another run's included
TwoOpenTemp(p) ==
    /\ runs[p].pc = "fix_temp"
    /\ temp' = [exists |-> TRUE, lines |-> <<>>]
    /\ runs' = [runs EXCEPT ![p] = [@ EXCEPT !.pc = "fix_loop", !.at = "temp"]]
    /\ UNCHANGED <<hdr, twoframe>>

\* lines 115-149: the loop; what it writes stays in tempf's buffer
TwoCopyLines(p) ==
    /\ runs[p].pc = "fix_loop"
    /\ runs' = [runs EXCEPT ![p] =
                  [@ EXCEPT !.pc = "fix_close",
                            !.buf = FixLines(runs[p].rec, runs[p].src, 1)]]
    /\ UNCHANGED <<hdr, temp, twoframe>>

\* lines 152-153: tempf.close() writes the buffer to the file tempf is open
\* on, whatever name that file has by now
TwoClose(p) ==
    /\ runs[p].pc = "fix_close"
    /\ temp' = IF runs[p].at = "temp"
               THEN [temp EXCEPT !.lines = Overlay(runs[p].buf, @)]
               ELSE temp
    /\ hdr' = IF runs[p].at = "hdr"
              THEN [hdr EXCEPT !.lines = Overlay(runs[p].buf, @)]
              ELSE hdr
    /\ runs' = [runs EXCEPT ![p] =
                  [@ EXCEPT !.pc = "fix_remove", !.buf = <<>>, !.at = ""]]
    /\ UNCHANGED twoframe

\* line 156: os.remove (gdal_hdr)
TwoRemove(p) ==
    /\ runs[p].pc = "fix_remove"
    /\ IF hdr.exists
       THEN /\ hdr' = NoFile
            /\ runs' = Renamed(p, [pc |-> "fix_rename", put |-> <<>>,
                                   exc |-> ""], "hdr", "", "")
       ELSE /\ UNCHANGED hdr
            /\ runs' = [runs EXCEPT ![p] =
                          [@ EXCEPT !.pc = "raised", !.exc = "OSError"]]
    /\ UNCHANGED <<temp, twoframe>>

\* line 159: os.rename (temp_hdr, gdal_hdr)
TwoRename(p) ==
    /\ runs[p].pc = "fix_rename"
    /\ IF temp.exists
       THEN /\ hdr' = temp
            /\ temp' = NoFile
            /\ runs' = Renamed(p, [pc |-> "done", put |-> temp.lines,
                                   exc |-> ""], "hdr", "temp", "hdr")
       ELSE /\ UNCHANGED <<hdr, temp>>
            /\ runs' = [runs EXCEPT ![p] =
                          [@ EXCEPT !.pc = "raised", !.exc = "OSError"]]
    /\ UNCHANGED twoframe

NextTwo ==
    \E p \in Runners :
        \/ TwoOpenHdr(p)
        \/ TwoOpenTemp(p)
        \/ TwoCopyLines(p)
        \/ TwoClose(p)
        \/ TwoRemove(p)
        \/ TwoRename(p)

SpecTwo == InitTwo /\ [][NextTwo]_vars

----------------------------------------------------------------------------
(* espa_logging: the calls a program makes to the module, in any order *)

\* how many calls to the module a run makes
MaxCalls == 4

\* a path open() cannot open for appending
Unopenable == "/no/such/dir/espa.log"

\* the file_name argument: <<>> for None
FileNames == {<<>>} \cup { <<p>> : p \in LogPaths \cup {Unopenable} }

\* the messages logged, as the lines their text has: one without a line
\* break and one with a line break in it, as the captured output of a tool
Messages == { <<"Processing scene">>, <<"retrieve_elevation", "done">> }

\* the frame inspect finds for the calling code
Caller == [file |-> "do_create_dem.py", line |-> 543]

\* The text build_log_message returns, as the lines it makes when written:
\* the time, the process and the place come before the message, so they are
\* on the first line only.
build_log_message(message, filename, line) ==
    [ i \in 1..Len(message) |->
        [ head |-> IF i = 1 THEN <<"time", "pid", filename, line>> ELSE <<>>,
          text |-> message[i] ] ]

\* lines 138-142: print (message_string), or write it with '\n' to the handle
Emit(ls) ==
    IF log_handler = <<>>
    THEN /\ stdout' = stdout \o ls
         /\ UNCHANGED logfiles
    ELSE /\ logfiles' = [logfiles EXCEPT ![log_handler[1]] = @ \o ls]
         /\ UNCHANGED stdout

\* lines 120-135: file and line, when given (<<v>>), override the caller's
Write(message, file, line) ==
    Emit(build_log_message(message,
                           IF file # <<>> THEN file[1] ELSE Caller.file,
                           IF line # <<>> THEN line[1] ELSE Caller.line))

\* what a call did, put on record once the call is over
Called(op, arg, ret, e) ==
    calls' = Append(calls,
        [ op |-> op, arg |-> arg, ret |-> ret, exc |-> e,
          handle |-> <<log_handler, log_handler'>>,
          flag |-> <<debug_on, debug_on'>>,
          out |-> Len(stdout') - Len(stdout),
          wrote |-> [ p \in LogPaths |->
                        Len(logfiles'[p]) - Len(logfiles[p]) ] ])

InitLog ==
    /\ pc = "logging"
    /\ cwd = HomeDir
    /\ mydir = ""
    /\ entered = FALSE
    /\ seen = [isfile |-> "unchecked", writable |-> "unchecked"]
    /\ usebin = FALSE
    /\ metafile = <<>>
    /\ rec = SceneDEM
    /\ parse_ret = <<>>
    /\ params = [n \in {} |-> Absent]
    /\ invoked = <<>>
    /\ hdr = NoFile
    /\ patched = FALSE
    /\ logged = <<>>
    /\ returned = <<>>
    /\ exc = ""
    /\ HdrIdle /\ LogIdle /\ MainIdle /\ ParseIdle

logframe == <<pc, cwd, mydir, entered, seen, usebin, metafile, rec, parse_ret,
              params, invoked, hdr, patched, logged, returned, exc, hdrvars,
              mainvars, parsevars>>

ClosedStays(h) == h
\* line 76: __LOG_HANDLER__ = None
Closed(h) == <<>>

MayOpenAlways(h, file_name) == file_name # <<>>
\* line 50: (__LOG_HANDLER__ == None) and (file_name != None)
MayOpen(h, file_name) == h = <<>> /\ file_name # <<>>

\* lines 39-57
open_log_handler ==
    /\ pc = "logging" /\ Len(calls) < MaxCalls
    /\ UNCHANGED <<debug_on, stdout, logfiles, logframe>>
    /\ \E file_name \in FileNames :
        /\ IF MayOpen(log_handler, file_name)
           THEN IF file_name[1] = Unopenable
                THEN /\ UNCHANGED log_handler
                     /\ Called("open_log_handler", file_name, <<>>, "IOError")
                ELSE /\ log_handler' = file_name
                     /\ Called("open_log_handler", file_name, <<SUCCESS>>, "")
           ELSE /\ UNCHANGED log_handler
                /\ Called("open_log_handler", file_name,
                          IF log_handler = <<>> THEN <<ERROR>>
                          ELSE <<SUCCESS>>, "")

\* lines 60-78; a closed file always says it is closed, so the ERROR of
\* line 75 is not reached
close_log_handler ==
    /\ pc = "logging" /\ Len(calls) < MaxCalls
    /\ UNCHANGED <<debug_on, stdout, logfiles, logframe>>
    /\ log_handler' = IF log_handler # <<>> THEN Closed(log_handler)
                      ELSE log_handler
    /\ Called("close_log_handler", <<>>, <<SUCCESS>>, "")

\* lines 109-142
log ==
    /\ pc = "logging" /\ Len(calls) < MaxCalls
    /\ \E message \in Messages :
        /\ Write(message, <<>>, <<>>)
        /\ UNCHANGED <<log_handler, debug_on, logframe>>
        /\ Called("log", message, <<>>, "")

\* lines 145-153
set_debug ==
    /\ pc = "logging" /\ Len(calls) < MaxCalls
    /\ \E on \in BOOLEAN :
        /\ debug_on' = on
        /\ UNCHANGED <<log_handler, stdout, logfiles, logframe>>
        /\ Called("set_debug", <<on>>, <<>>, "")

\* lines 156-178
debug ==
    /\ pc = "logging" /\ Len(calls) < MaxCalls
    /\ \E message \in Messages :
        /\ IF debug_on
           THEN Write(message, <<Caller.file>>, <<Caller.line>>)
           ELSE UNCHANGED <<stdout, logfiles>>
        /\ UNCHANGED <<log_handler, debug_on, logframe>>
        /\ Called("debug", message, <<>>, "")

NextLog ==
    \/ open_log_handler
    \/ close_log_handler
    \/ log
    \/ set_debug
    \/ debug

SpecLog == InitLog /\ [][NextLog]_vars

----------------------------------------------------------------------------
(* do_create_dem.py run as a program *)

EXIT_SUCCESS == 0
EXIT_FAILURE == 1

\* the exit status the system keeps of sys.exit (v): the low eight bits
ExitStatus(v) == v % 256

InitMain ==
    /\ pc = "main"
    /\ cwd \in {HomeDir, MetaDir}
    /\ mydir = ""
    /\ entered = FALSE
    /\ seen = [isfile |-> "unchecked", writable |-> "unchecked"]
    /\ usebin \in BOOLEAN
    /\ metafile = <<>>
    /\ rec = SceneDEM
    /\ parse_ret = <<>>
    /\ params = [n \in {ParamFiles[i] : i \in DOMAIN ParamFiles} |-> Absent]
    /\ invoked = <<>>
    /\ hdr = NoFile
    /\ patched = FALSE
    /\ logged = <<>>
    /\ returned = <<>>
    /\ exc = ""
    /\ HdrIdle /\ LogIdle /\ MainIdle /\ ParseIdle

\* lines 459-476: createDEM () reads the command line; without --metafile,
\* parser.error prints the usage and leaves through sys.exit (2), so the
\* return ERROR of line 476 is not reached
ParseArgs ==
    /\ pc = "main"
    /\ \E given \in BOOLEAN :
        IF given
        THEN /\ pc' = "begin"
             /\ UNCHANGED exit_status
        ELSE /\ pc' = "exited"
             /\ exit_status' = <<2>>
    /\ UNCHANGED <<cwd, mydir, entered, seen, usebin, metafile, rec, parse_ret,
                   params, invoked, hdr, patched, logged, returned, exc,
                   hdrvars, logvars, parsevars>>

\* line 610: sys.exit (SceneDEM().createDEM()); an exception that left
\* createDEM ends the program with a traceback and status 1.  sys.exit
\* does not return, so lines 612-615 are not reached.
Exit ==
    /\ pc = "done"
    /\ pc' = "exited"
    /\ exit_status' = IF exc # "" THEN <<1>> ELSE <<ExitStatus(returned[1])>>
    /\ UNCHANGED <<cwd, mydir, entered, seen, usebin, metafile, rec, parse_ret,
                   params, invoked, hdr, patched, logged, returned, exc,
                   hdrvars, logvars, parsevars>>

NextMain ==
    \/ ParseArgs
    \/ ResolveExecutables
    \/ CheckMetafile
    \/ ChangeDirectory
    \/ ParseMetadata
    \/ WriteParamFiles
    \/ RunRetrieveElevation
    \/ RunMakeGeomGrid
    \/ RunGeomResample
    \/ RunGdalTranslate
    \/ PatchHeader
    \/ ReturnSuccess
    \/ Exit

SpecMain == InitMain /\ [][NextMain]_vars

----------------------------------------------------------------------------
(* What a metadata file holds, read off its lines *)

\* the lines parseMeta scans: those above the first END
Scanned(file) == SubSeq(file, 1, FirstEnd(file, 1) - 1)

\* the keys of the scanned lines
KeysSeen(file) ==
    LET S == Scanned(file) IN
    { S[i].param : i \in { j \in DOMAIN S : S[j].kind = "kv" } }

\* the numbers the scanned lines give for the keys of K
ValuesSeen(file, K) ==
    LET S == Scanned(file) IN
    { ToFloat(S[i].value).val :
        i \in { j \in DOMAIN S : S[j].kind = "kv" /\ S[j].param \in K } }

\* the value text of the last scanned line for key k (k is in KeysSeen)
LastText(file, k) ==
    LET S == Scanned(file)
        at == { j \in DOMAIN S : S[j].kind = "kv" /\ S[j].param = k }
        last == CHOOSE j \in at : \A m \in at : m <= j
    IN  S[last].value

MaxOf(V) == CHOOSE v \in V : \A w \in V : w <= v
MinOf(V) == CHOOSE v \in V : \A w \in V : v <= w

NorthKeys == {"CORNER_UL_LAT_PRODUCT", "CORNER_UR_LAT_PRODUCT"}
SouthKeys == {"CORNER_LL_LAT_PRODUCT", "CORNER_LR_LAT_PRODUCT"}
EastKeys == {"CORNER_UR_LON_PRODUCT", "CORNER_LR_LON_PRODUCT"}
WestKeys == {"CORNER_UL_LON_PRODUCT", "CORNER_LL_LON_PRODUCT"}
PSKeys == { "VERTICAL_LON_FROM_POLE", "TRUE_SCALE_LAT", "FALSE_EASTING",
            "FALSE_NORTHING" }

\* the projection the file names: the text of its last MAP_PROJECTION line
ProjectionOf(file) ==
    IF "MAP_PROJECTION" \in KeysSeen(file)
    THEN StripQuotes(LastText(file, "MAP_PROJECTION"))
    ELSE "<none>"

AllAbsent == \A n \in DOMAIN params : params[n] = Absent

CreateDEMReturned(v) == pc = "done" /\ returned = <<v>>

----------------------------------------------------------------------------
(* Claims about createDEM, checked under Spec *)

\* C1: on every way out of createDEM after it changed into the metadata
\* directory (a return of SUCCESS or ERROR, or an exception raised by
\* parseMeta, writeParams, a tool invocation or fixGdalHdr), the working
\* directory equals the directory recorded at entry.
C1_CwdRestoredOnEveryExit == (pc = "done" /\ entered) => cwd = mydir

\* C2: the tools are started in the fixed order retrieve_elevation,
\* makegeomgrid, geomresample, gdal_translate, each at most once and only
\* after every earlier tool exited with status zero; once a tool has exited
\* non-zero no later tool is started, the header patcher is not run and
\* createDEM returns ERROR.
C2_ToolsInOrderStopAtFailure ==
    /\ Len(invoked) <= Len(Tools)
    /\ \A i \in DOMAIN invoked :
        /\ invoked[i].tool = Tools[i]
        /\ i < Len(invoked) =>
             invoked[i].result.started /\ invoked[i].result.status = 0
        /\ (invoked[i].result.started /\ invoked[i].result.status # 0) =>
             /\ i = Len(invoked)
             /\ ~patched
             /\ CreateDEMReturned(ERROR)

\* the second tool exited non-zero and createDEM returned ERROR
C2_Witness ==
    /\ Len(invoked) = 2
    /\ invoked[2].result.started /\ invoked[2].result.status # 0
    /\ CreateDEMReturned(ERROR)

\* C3: when a tool cannot be started at all, createDEM starts no later tool
\* and returns ERROR to its caller; the failure does not escape.
C3_InvocationErrorReturnsError ==
    \A i \in DOMAIN invoked :
        ~invoked[i].result.started =>
            i = Len(invoked) /\ CreateDEMReturned(ERROR) /\ exc = ""

\* C4: when a tool exits with a non-zero status, the output captured from
\* that tool is in the log by the time createDEM returns ERROR.
C4_FailingToolOutputLogged ==
    \A i \in DOMAIN invoked :
        (/\ invoked[i].result.started
         /\ invoked[i].result.status # 0
         /\ CreateDEMReturned(ERROR))
        => \E j \in DOMAIN logged : logged[j] = Output(invoked[i].tool)

\* C7: when parseMeta reports a validation error, createDEM returns ERROR
\* with no parameter file written and no external tool started.
C7_ParseErrorStopsBeforeWriting ==
    parse_ret = <<ERROR>> =>
        /\ CreateDEMReturned(ERROR)
        /\ AllAbsent
        /\ invoked = <<>>

\* parseMeta logged a validation error and createDEM returned ERROR
C7_Witness ==
    /\ parse_ret = <<ERROR>>
    /\ CreateDEMReturned(ERROR)
    /\ \E j \in DOMAIN logged :
          logged[j] = Msg("Error: obtaining path/row metadata fields")

----------------------------------------------------------------------------
(* Claims about parseMeta on a fresh instance, checked under SpecParse *)

ParseMetaReturned == pc = "done" /\ parse_ret # <<>>

\* C5: a file whose MAP_PROJECTION is UTM and that has no UTM_ZONE key above
\* END makes parseMeta return ERROR, never SUCCESS with the default zone.
C5_UTMWithoutZoneIsError ==
    (/\ ParseMetaReturned
     /\ ProjectionOf(metafile) = "UTM"
     /\ "UTM_ZONE" \notin KeysSeen(metafile))
    => parse_ret = <<ERROR>>

\* some required field is not given by the lines above END
Unobserved(file) ==
    LET keys == KeysSeen(file)
        proj == ProjectionOf(file)
    IN  \/ \E K \in {NorthKeys, SouthKeys, EastKeys, WestKeys} :
              K \cap keys = {}
        \/ \E k \in { "CORNER_UL_PROJECTION_X_PRODUCT",
                      "CORNER_UL_PROJECTION_Y_PRODUCT",
                      "GRID_CELL_SIZE_REFLECTIVE", "WRS_PATH", "WRS_ROW" } :
              k \notin keys
        \/ proj \notin {"UTM", "PS"}
        \/ proj = "PS" /\ \E k \in PSKeys : k \notin keys

ExtremumSeen(file, K, initial, Pick(_)) ==
    LET V == ValuesSeen(file, K) IN IF V = {} THEN initial ELSE Pick(V)

\* C10: after parseMeta has scanned a file, the north bound is the maximum
\* of the UL and UR latitudes above END, the south bound the minimum of the
\* LL and LR latitudes, the east bound the maximum of the UR and LR
\* longitudes and the west bound the minimum of the UL and LL longitudes,
\* whatever the order of the lines; a bound no line feeds keeps its initial
\* value. (Corner values are degrees, which lie inside the initial values
\* -9999.0 and 9999.0.)
C10_BoundsAreExtrema ==
    ParseMetaReturned =>
        /\ rec.north_bound_lat =
             ExtremumSeen(metafile, NorthKeys, SceneDEM.north_bound_lat, MaxOf)
        /\ rec.south_bound_lat =
             ExtremumSeen(metafile, SouthKeys, SceneDEM.south_bound_lat, MinOf)
        /\ rec.east_bound_lon =
             ExtremumSeen(metafile, EastKeys, SceneDEM.east_bound_lon, MaxOf)
        /\ rec.west_bound_lon =
             ExtremumSeen(metafile, WestKeys, SceneDEM.west_bound_lon, MinOf)

\* the last latitude line feeding the north bound lies below an earlier one,
\* and the bound kept the earlier one
C10_Witness ==
    /\ ParseMetaReturned
    /\ LET S == Scanned(metafile)
           at == { j \in DOMAIN S : S[j].kind = "kv" /\ S[j].param \in NorthKeys }
       IN  /\ at # {}
           /\ ToFloat(S[MaxOf(at)].value).val < rec.north_bound_lat
           /\ rec.north_bound_lat = MaxOf(ValuesSeen(metafile, NorthKeys))

----------------------------------------------------------------------------
(* Claims about the half-pixel shift, checked under Spec *)

RawX(file) == ToFloat(LastText(file, "CORNER_UL_PROJECTION_X_PRODUCT")).val
RawY(file) == ToFloat(LastText(file, "CORNER_UL_PROJECTION_Y_PRODUCT")).val
RawPixsize(file) == ToFloat(LastText(file, "GRID_CELL_SIZE_REFLECTIVE")).val

\* C9: when parseMeta has returned SUCCESS the UL projection x is the raw
\* value less half the pixel size and y the raw value plus half the pixel
\* size, from the return on (so when writeParams runs and in the map info
\* line fixGdalHdr writes); when it has returned ERROR, x and y are as
\* scanned, not shifted.
C9_ShiftedOnceAfterValidation ==
    /\ parse_ret = <<SUCCESS>> =>
        /\ rec.ul_proj_x = RawX(metafile) - HalfOf(RawPixsize(metafile))
        /\ rec.ul_proj_y = RawY(metafile) + HalfOf(RawPixsize(metafile))
        /\ rec.pixsize = RawPixsize(metafile)
        /\ (patched /\ hdr.exists) =>
             \A i \in DOMAIN hdr.lines :
                HasMarker(hdr.lines[i]) =>
                  /\ hdr.lines[i].x = RawX(metafile) - HalfOf(RawPixsize(metafile))
                  /\ hdr.lines[i].y = RawY(metafile) + HalfOf(RawPixsize(metafile))
    /\ parse_ret = <<ERROR>> =>
        /\ rec.ul_proj_x =
             IF "CORNER_UL_PROJECTION_X_PRODUCT" \in KeysSeen(metafile)
             THEN RawX(metafile) ELSE SceneDEM.ul_proj_x
        /\ rec.ul_proj_y =
             IF "CORNER_UL_PROJECTION_Y_PRODUCT" \in KeysSeen(metafile)
             THEN RawY(metafile) ELSE SceneDEM.ul_proj_y

\* a file that gives the pixel size twice validated, and fixGdalHdr wrote
\* the shifted corner into the map info line
C9_Witness ==
    /\ parse_ret = <<SUCCESS>>
    /\ patched
    /\ RawPixsize(metafile) = Float(60)
    /\ \E i \in DOMAIN hdr.lines :
        /\ HasMarker(hdr.lines[i])
        /\ hdr.lines[i].x = RawX(metafile) - Float(30)
        /\ hdr.lines[i].y = RawY(metafile) + Float(30)

----------------------------------------------------------------------------
(* fixGdalHdr *)

\* fixGdalHdr has opened the header and has not raised
InFixGdalHdr == pc \in FixSteps \cup {"killed"} \/ (pc = "done" /\ exc = "")

\* fixGdalHdr ran to its end
FixGdalHdrReturned == pc = "done" /\ exc = "" /\ patched

\* C11: at every point of fixGdalHdr, an interruption between two of its
\* steps included, the header path names a file holding either the whole
\* original content or the whole patched content.
C11_HeaderAlwaysWhole ==
    InFixGdalHdr =>
        /\ hdr.exists
        /\ hdr.lines \in {orig, FixLines(rec, orig, 1)}

\* the lines of a header without the marker, in their order
Unmarked(lines) == SelectSeq(lines, LAMBDA l : ~HasMarker(l))

\* a is b with some of its lines left out
RECURSIVE IsSubSeq(_, _, _, _)
IsSubSeq(a, b, i, j) ==
    IF i > Len(a) THEN TRUE
    ELSE IF j > Len(b) THEN FALSE
    ELSE IF a[i] = b[j] THEN IsSubSeq(a, b, i + 1, j + 1)
    ELSE IsSubSeq(a, b, i, j + 1)

\* C12: every input line without the 'map info' marker is in the output
\* byte for byte and in its original relative order; a header without a
\* marker line comes out equal to what went in, and no error is raised
\* (the only error is that of a header that is not there to open).
C12_UnmarkedLinesCopied ==
    /\ FixGdalHdrReturned =>
         /\ hdr.exists
         /\ IsSubSeq(Unmarked(orig), hdr.lines, 1, 1)
         /\ Unmarked(orig) = orig => hdr.lines = orig
    /\ (pc = "done" /\ exc # "") => (~hdr.exists /\ orig = <<>>)

\* a header with lines before and after the marker, one of them indented or
\* ending in CR LF, was patched
C12_Witness ==
    /\ FixGdalHdrReturned
    /\ Len(orig) = 3
    /\ HasMarker(orig[2])
    /\ ~HasMarker(orig[1]) /\ ~HasMarker(orig[3])
    /\ orig[1].eol = "CRLF"
    /\ orig[3].lead # ""

\* how many of the first n lines hold the marker
RECURSIVE Markers(_, _)
Markers(lines, n) ==
    IF n = 0 THEN 0
    ELSE Markers(lines, n - 1) + (IF HasMarker(lines[n]) THEN 1 ELSE 0)

\* C13: the line written in place of a 'map info' line follows the
\* validated projection: for UTM one line, North with the zone when
\* utm_zone > 0 and South with -utm_zone when utm_zone < 0; for PS one
\* Polar Stereographic map info line and right after it exactly one added
\* projection info line.
C13_MapInfoFollowsProjection ==
    FixGdalHdrReturned =>
        /\ rec.map_proj = "UTM" =>
             /\ Len(hdr.lines) = Len(orig)
             /\ \A i \in 1..Len(orig) :
                  HasMarker(orig[i]) =>
                    /\ hdr.lines[i].text = <<"map info">>
                    /\ hdr.lines[i].proj = "UTM"
                    /\ rec.utm_zone > 0 =>
                         /\ hdr.lines[i].hemi = "North"
                         /\ hdr.lines[i].zone = rec.utm_zone
                    /\ rec.utm_zone < 0 =>
                         /\ hdr.lines[i].hemi = "South"
                         /\ hdr.lines[i].zone = -rec.utm_zone
        /\ rec.map_proj = "PS" =>
             /\ Len(hdr.lines) = Len(orig) + Markers(orig, Len(orig))
             /\ \A i \in 1..Len(orig) :
                  HasMarker(orig[i]) =>
                    LET p == i + Markers(orig, i - 1) IN
                    /\ hdr.lines[p].text = <<"map info">>
                    /\ hdr.lines[p].proj = "Polar Stereographic"
                    /\ hdr.lines[p + 1].text = <<"projection info">>

\* a header with a marker line was patched for zone -10: South, 10
C13_Witness ==
    /\ FixGdalHdrReturned
    /\ rec.map_proj = "UTM"
    /\ rec.utm_zone = -10
    /\ \E i \in 1..Len(orig) :
        /\ HasMarker(orig[i])
        /\ hdr.lines[i].hemi = "South"
        /\ hdr.lines[i].zone = 10

----------------------------------------------------------------------------
(* espa_logging *)

\* how many lines a call wrote to log files
RECURSIVE WroteTo(_, _)
WroteTo(c, P) ==
    IF P = {} THEN 0
    ELSE LET p == CHOOSE q \in P : TRUE IN c.wrote[p] + WroteTo(c, P \ {p})

\* how many lines a call emitted, wherever to
Emitted(c) == c.out + WroteTo(c, LogPaths)

\* C14: open_log_handler given a path that cannot be opened returns ERROR
\* to its caller, raises nothing, and leaves the state without a handle.
C14_OpenFailureReturnsError ==
    \A i \in DOMAIN calls :
        ( /\ calls[i].op = "open_log_handler"
          /\ calls[i].arg = <<Unopenable>>
          /\ calls[i].handle[1] = <<>> ) =>
            /\ calls[i].exc = ""
            /\ calls[i].ret = <<ERROR>>
            /\ calls[i].handle[2] = <<>>

\* call k opened a handle on request: open_log_handler with a file name
OpensOnRequest(k) ==
    calls[k].op = "open_log_handler" /\ calls[k].arg # <<>>

\* C15: once close_log_handler has returned SUCCESS the handle stays absent
\* through log, debug and set_debug calls, and every line goes to standard
\* output, until open_log_handler is called with a file name; nothing else
\* ever opens a handle.
C15_ClosedStaysClosed ==
    /\ \A i \in DOMAIN calls : \A j \in i..Len(calls) :
        ( /\ calls[i].op = "close_log_handler"
          /\ calls[i].ret = <<SUCCESS>>
          /\ \A k \in (i + 1)..j : ~OpensOnRequest(k) ) =>
            /\ calls[j].handle[2] = <<>>
            /\ WroteTo(calls[j], LogPaths) = 0
            /\ calls[j].op = "log" => calls[j].out > 0
    /\ \A j \in DOMAIN calls :
        (calls[j].handle[1] = <<>> /\ calls[j].handle[2] # <<>>) =>
            OpensOnRequest(j)
    /\ calls # <<>> => log_handler = calls[Len(calls)].handle[2]

\* a log file was opened and closed, and a line was logged after that
C15_Witness ==
    /\ Len(calls) >= 3
    /\ calls[1].op = "open_log_handler" /\ calls[1].handle[2] = <<"a.log">>
    /\ calls[2].op = "close_log_handler"
    /\ calls[3].op = "log" /\ calls[3].out = 1

\* C16: every log call emits exactly one line, to the handle when one is
\* open and to standard output otherwise, and leaves the handle and the
\* debug flag as they were.
C16_LogEmitsOneLine ==
    \A i \in DOMAIN calls :
        calls[i].op = "log" =>
            /\ Emitted(calls[i]) = 1
            /\ IF calls[i].handle[1] = <<>>
               THEN calls[i].out = 1
               ELSE calls[i].wrote[calls[i].handle[1][1]] = 1
            /\ calls[i].handle[2] = calls[i].handle[1]
            /\ calls[i].flag[2] = calls[i].flag[1]

\* the value set_debug gave the flag before call i, FALSE when none did
RECURSIVE FlagBefore(_)
FlagBefore(i) ==
    IF i = 1 THEN FALSE
    ELSE IF calls[i - 1].op = "set_debug" THEN calls[i - 1].arg[1]
    ELSE FlagBefore(i - 1)

\* C17: a debug call emits nothing while the flag is off and exactly one
\* log line while it is on; the flag is the argument of the latest
\* set_debug call, and false before any.
C17_DebugFollowsFlag ==
    /\ \A i \in DOMAIN calls :
        /\ calls[i].flag[1] = FlagBefore(i)
        /\ calls[i].op = "debug" =>
             Emitted(calls[i]) = (IF calls[i].flag[1] THEN 1 ELSE 0)
    /\ debug_on = FlagBefore(Len(calls) + 1)

----------------------------------------------------------------------------
(* the program's exit status *)

\* C18: run as a program, do_create_dem.py exits with 0 when createDEM
\* returned SUCCESS and with 1 on every failure: createDEM returning ERROR,
\* or a missing metadata file argument.
C18_ExitStatusZeroOrOne ==
    pc = "exited" =>
        exit_status = IF returned = <<SUCCESS>> THEN <<EXIT_SUCCESS>>
                      ELSE <<EXIT_FAILURE>>

----------------------------------------------------------------------------
(* what parseMeta does not read *)

\* what a call of parseMeta left behind: the record, the return value and
\* the exception
Outcome(p) ==
    << p.rec,
       IF p.ended = "raise" THEN <<>> ELSE <<p.ret>>,
       IF p.ended = "raise" THEN "ValueError" ELSE "" >>

\* C19: parseMeta stops at the first END line: the record and the result
\* are those of the file cut off above that line, whatever lines (a
\* recognized key, an unknown key, a malformed line) come after it.
C19_NothingReadAfterEND ==
    pc = "done" =>
        <<rec, parse_ret, exc>> = Outcome(parseMeta(SceneDEM, Scanned(metafile)))

\* a file with a line without "=" below END was parsed with SUCCESS
C19_Witness ==
    /\ pc = "done"
    /\ parse_ret = <<SUCCESS>>
    /\ FirstEnd(metafile, 1) < Len(metafile)
    /\ metafile[Len(metafile)].kind = "noeq"

\* the keys parseMeta tests for
Recognized == FloatKeys \cup IntKeys \cup {"MAP_PROJECTION"}

\* a "param = value" line with a key parseMeta does not test for
Unrecognized(l) == l.kind = "kv" /\ l.param \notin Recognized

\* the file without the unrecognized lines it has above END
Recognizable(file) ==
    SelectSeq(Scanned(file), LAMBDA l : ~Unrecognized(l))
    \o SubSeq(file, FirstEnd(file, 1), Len(file))

\* C20: a KEY = VALUE line with an unrecognized key changes no field and
\* raises no error, whatever its value text: the record and the result are
\* those of the file without such lines.
C20_UnknownKeysIgnored ==
    pc = "done" =>
        <<rec, parse_ret, exc>>
            = Outcome(parseMeta(SceneDEM, Recognizable(metafile)))

\* a file with an unrecognized key above END, its value a number, was
\* parsed with SUCCESS
C20_Witness ==
    /\ pc = "done"
    /\ parse_ret = <<SUCCESS>>
    /\ \E i \in 1..Len(Scanned(metafile)) :
        /\ Unrecognized(metafile[i])
        /\ metafile[i].param = "SUN_ELEVATION"

----------------------------------------------------------------------------
(* failures inside createDEM *)

\* a line above END gives a recognized numeric key a value that float() or
\* int() does not take
MalformedNumber(file) ==
    LET scanned == Scanned(file) IN
    \E i \in 1..Len(scanned) :
        /\ scanned[i].kind = "kv"
        /\ \/ scanned[i].param \in FloatKeys /\ ~ToFloat(scanned[i].value).ok
           \/ scanned[i].param \in IntKeys /\ ~ToInt(scanned[i].value).ok

\* C21: a malformed numeric value for a recognized key above END comes back
\* as an error code: createDEM returns ERROR, writes no parameter file and
\* invokes no tool.
C21_MalformedNumberReturnsError ==
    (pc = "done" /\ metafile # <<>> /\ MalformedNumber(metafile)) =>
        /\ CreateDEMReturned(ERROR)
        /\ AllAbsent
        /\ invoked = <<>>

\* writeParams was entered and an IOError left it
WriteParamsFailed ==
    /\ pc = "done"
    /\ exc = "IOError"
    /\ parse_ret = <<SUCCESS>>
    /\ ~patched

\* C22: when writeParams fails partway, no partially written or empty
\* parameter file is left behind, and no tool is invoked afterwards.
C22_NoPartialParamFiles ==
    WriteParamsFailed =>
        /\ \A n \in DOMAIN params : params[n].state # "empty"
        /\ invoked = <<>>

----------------------------------------------------------------------------
(* the OMF file *)

\* the places of the lines with key k
LinesWith(ls, k) == { i \in 1..Len(ls) : ls[i].key = k }

\* C23: for a validated record the OMF file holds exactly one
\* TARGET_PROJECTION line: for UTM it says 1 and the next line is the only
\* UTM_ZONE line, with the record's zone; for PS it says 6 and there is no
\* UTM_ZONE line.  The four boundary lines carry the record's north/south
\* and west/east bounds, the path and row lines its WRS path and row.
C23_OmfFollowsRecord ==
    params["LSRD.omf"].state = "complete" =>
        LET omf == params["LSRD.omf"].lines IN
        /\ parse_ret = <<SUCCESS>>
        /\ Cardinality(LinesWith(omf, "TARGET_PROJECTION")) = 1
        /\ \A i \in LinesWith(omf, "TARGET_PROJECTION") :
            /\ rec.map_proj = "UTM" =>
                 /\ omf[i] = OmfLine("TARGET_PROJECTION", 1, 0)
                 /\ omf[i + 1] = OmfLine("UTM_ZONE", rec.utm_zone, 0)
                 /\ LinesWith(omf, "UTM_ZONE") = {i + 1}
            /\ rec.map_proj = "PS" =>
                 /\ omf[i] = OmfLine("TARGET_PROJECTION", 6, 0)
                 /\ LinesWith(omf, "UTM_ZONE") = {}
        /\ \A k \in { "UL_BOUNDARY_LAT_LON", "UR_BOUNDARY_LAT_LON",
                      "LL_BOUNDARY_LAT_LON", "LR_BOUNDARY_LAT_LON",
                      "TARGET_WRS_PATH", "TARGET_WRS_ROW" } :
              Cardinality(LinesWith(omf, k)) = 1
        /\ \A i \in 1..Len(omf) :
            /\ omf[i].key = "UL_BOUNDARY_LAT_LON" =>
                 (omf[i].a = rec.north_bound_lat /\ omf[i].b = rec.west_bound_lon)
            /\ omf[i].key = "UR_BOUNDARY_LAT_LON" =>
                 (omf[i].a = rec.north_bound_lat /\ omf[i].b = rec.east_bound_lon)
            /\ omf[i].key = "LL_BOUNDARY_LAT_LON" =>
                 (omf[i].a = rec.south_bound_lat /\ omf[i].b = rec.west_bound_lon)
            /\ omf[i].key = "LR_BOUNDARY_LAT_LON" =>
                 (omf[i].a = rec.south_bound_lat /\ omf[i].b = rec.east_bound_lon)
            /\ omf[i].key = "TARGET_WRS_PATH" => omf[i].a = rec.path
            /\ omf[i].key = "TARGET_WRS_ROW" => omf[i].a = rec.row

\* the OMF file of a UTM scene of zone 10 was written
C23_Witness ==
    /\ params["LSRD.omf"].state = "complete"
    /\ rec.map_proj = "UTM"
    /\ \E i \in 1..Len(params["LSRD.omf"].lines) :
        params["LSRD.omf"].lines[i] = OmfLine("UTM_ZONE", 10, 0)

----------------------------------------------------------------------------
(* two runs in one directory *)

\* the complete patched content of run p
OwnContent(p) == FixLines(runs[p].rec, runs[p].src, 1)

\* C24: the scratch file is each run's own: from the moment a run has
\* closed its scratch file until it renames it, the file is there and holds
\* that run's complete patched content, and what the run puts under the
\* header's name is that content; the other run neither writes to, removes
\* nor renames it.
C24_ScratchFileIsOwn ==
    \A p \in Runners :
        /\ runs[p].pc \in {"fix_remove", "fix_rename"} =>
             (temp.exists /\ temp.lines = OwnContent(p))
        /\ runs[p].pc = "done" => runs[p].put = OwnContent(p)

----------------------------------------------------------------------------
(* the one way to SUCCESS *)

AllComplete ==
    \A i \in DOMAIN ParamFiles :
        params[ParamFiles[i]] = Complete(ParamText(rec, i))

\* the first i tools were run in order and each exited with zero
RanClean(i) ==
    /\ Len(invoked) >= i
    /\ \A k \in 1..i :
        /\ invoked[k].tool = Tools[k]
        /\ invoked[k].result = [started |-> TRUE, status |-> 0]

\* the places in the log of the captured output of tool i, and of the line
\* that says tool i is being started
OutputAt(i) == { j \in DOMAIN logged : logged[j].of = Tools[i] }
StartAt(i) ==
    { j \in DOMAIN logged : logged[j] = Msg("Executing: " \o Tools[i]) }

\* C25: createDEM returns SUCCESS only in a run where, in this order, the
\* metadata validated, the four parameter files were written, each of the
\* four tools exited with zero and had its output logged before the next
\* tool was started, the header patcher completed and the working directory
\* was restored.  The order: nothing is written before the metadata
\* validated, no tool is run before the four files are written, and the
\* patcher is not entered before the four tools ran clean.
C25_SuccessOnlyAfterEveryStep ==
    /\ ~AllAbsent => parse_ret = <<SUCCESS>>
    /\ invoked # <<>> => AllComplete
    /\ \A i \in 2..Len(invoked) :
        /\ RanClean(i - 1)
        /\ OutputAt(i - 1) # {}
        /\ \A j \in OutputAt(i - 1), k \in StartAt(i) : j < k
    /\ patched => (RanClean(Len(Tools)) /\ OutputAt(Len(Tools)) # {})
    /\ CreateDEMReturned(SUCCESS) =>
        /\ parse_ret = <<SUCCESS>>
        /\ AllComplete
        /\ Len(invoked) = Len(Tools)
        /\ RanClean(Len(Tools))
        /\ patched /\ hdr.exists /\ exc = ""
        /\ entered /\ cwd = mydir

\* createDEM returned SUCCESS, called from another directory
C25_Witness ==
    /\ CreateDEMReturned(SUCCESS)
    /\ mydir = HomeDir
    /\ cwd = HomeDir
    /\ Len(logged) > 2 * Len(Tools)

----------------------------------------------------------------------------
(* a second parseMeta call on the same instance *)

\* the extremum of the corner values both files give for the keys of K
ExtremumOfBoth(f1, f2, K, Pick(_)) ==
    Pick(ValuesSeen(f1, K) \cup ValuesSeen(f2, K))

\* the fields fed by one key each
FieldOf ==
    [ GRID_CELL_SIZE_REFLECTIVE |-> "pixsize", WRS_PATH |-> "path",
      WRS_ROW |-> "row", MAP_PROJECTION |-> "map_proj",
      UTM_ZONE |-> "utm_zone",
      VERTICAL_LON_FROM_POLE |-> "vert_lon_from_pole",
      TRUE_SCALE_LAT |-> "true_scale_lat", FALSE_EASTING |-> "false_east",
      FALSE_NORTHING |-> "false_north" ]

\* C26: parseMeta does not reset the record. After a second call on the
\* same instance the bounds are the extrema over the corner values of both
\* files, a field the second file omits keeps the first file's value and
\* passes validation, and UL projection coordinates the second file does
\* not give again are shifted by half a pixel a second time.
C26_SecondCallBuildsOnFirst ==
    (pc = "done" /\ first # <<>> /\ parse_ret # <<>>) =>
        LET f1 == first[1].file
            r1 == first[1].rec
            keys == KeysSeen(metafile)
            half == HalfOf(rec.pixsize)
        IN
        /\ first[1].ret = <<SUCCESS>>
        /\ r1.ul_proj_x = RawX(f1) - HalfOf(RawPixsize(f1))
        /\ r1.ul_proj_y = RawY(f1) + HalfOf(RawPixsize(f1))
        /\ rec.north_bound_lat = ExtremumOfBoth(f1, metafile, NorthKeys, MaxOf)
        /\ rec.south_bound_lat = ExtremumOfBoth(f1, metafile, SouthKeys, MinOf)
        /\ rec.east_bound_lon = ExtremumOfBoth(f1, metafile, EastKeys, MaxOf)
        /\ rec.west_bound_lon = ExtremumOfBoth(f1, metafile, WestKeys, MinOf)
        /\ \A k \in DOMAIN FieldOf :
              k \notin keys => rec[FieldOf[k]] = r1[FieldOf[k]]
        /\ rec.map_proj = r1.map_proj => parse_ret = <<SUCCESS>>
        /\ parse_ret = <<SUCCESS>> =>
            /\ rec.ul_proj_x =
                 (IF "CORNER_UL_PROJECTION_X_PRODUCT" \in keys
                  THEN RawX(metafile) ELSE r1.ul_proj_x) - half
            /\ rec.ul_proj_y =
                 (IF "CORNER_UL_PROJECTION_Y_PRODUCT" \in keys
                  THEN RawY(metafile) ELSE r1.ul_proj_y) + half

\* the second file gave no UL projection x and a north bound below the
\* first file's: the call returned SUCCESS, x was shifted twice and the
\* north bound is the first file's
C26_Witness ==
    /\ pc = "done" /\ first # <<>>
    /\ parse_ret = <<SUCCESS>>
    /\ "CORNER_UL_PROJECTION_X_PRODUCT" \notin KeysSeen(metafile)
    /\ rec.ul_proj_x = RawX(first[1].file) - Float(30)
    /\ rec.pixsize = Float(30)
    /\ rec.north_bound_lat \notin ValuesSeen(metafile, NorthKeys)

----------------------------------------------------------------------------
(* one handle *)

\* the calls so far that opened a handle, and those that closed one
Opening == { i \in DOMAIN calls :
               calls[i].handle[1] = <<>> /\ calls[i].handle[2] # <<>> }
Closing == { i \in DOMAIN calls :
               calls[i].handle[1] # <<>> /\ calls[i].handle[2] = <<>> }

\* C27: open_log_handler called while a handle is open keeps that handle,
\* opens nothing for the file name it is given and returns SUCCESS; called
\* with no file name while no handle is open it returns ERROR and changes
\* nothing; at most one handle is open at any time.
C27_OneHandleAtMost ==
    /\ \A i \in DOMAIN calls :
        calls[i].op = "open_log_handler" =>
            /\ calls[i].handle[1] # <<>> =>
                 /\ calls[i].handle[2] = calls[i].handle[1]
                 /\ calls[i].ret = <<SUCCESS>>
                 /\ calls[i].exc = ""
            /\ (calls[i].handle[1] = <<>> /\ calls[i].arg = <<>>) =>
                 /\ calls[i].handle[2] = <<>>
                 /\ calls[i].ret = <<ERROR>>
                 /\ calls[i].exc = ""
            /\ calls[i].flag[2] = calls[i].flag[1]
            /\ Emitted(calls[i]) = 0
    /\ Len(log_handler) = Cardinality(Opening) - Cardinality(Closing)
    /\ Len(log_handler) <= 1

\* a.log was open when open_log_handler was called for b.log
C27_Witness ==
    \E i \in DOMAIN calls :
        /\ calls[i].op = "open_log_handler"
        /\ calls[i].arg = <<"b.log">>
        /\ calls[i].handle = << <<"a.log">>, <<"a.log">> >>
        /\ calls[i].ret = <<SUCCESS>>

====
